---- MODULE Spec2Model ----
(***************************************************************************)
(* A model of src/src/validation.ts: validateForm and the recursive walker *)
(* validateValue with validateString, validateNumber, validateArray,       *)
(* validateObject, validateDiscriminatedUnion and validateAsync.           *)
(*                                                                         *)
(* One run of validateForm(data, schema) is a state machine: the call      *)
(* stack of the async functions is `stack`, the two collectors are         *)
(* `errors` and `asyncErrors`, and the promise the call returns is         *)
(* `promise`.  `log` is a history variable: it records, in order, every    *)
(* validateValue visit, every validator invocation and settlement and      *)
(* every addError/addAsyncError, each with the visit that caused it, and   *)
(* every return of validateValue.  `previous` is what the caller holds of  *)
(* an earlier call with the same arguments: the promise that call settled. *)
(***************************************************************************)
EXTENDS Integers, Sequences, FiniteSets, TLC

VARIABLES data, schema, stack, errors, asyncErrors, promise, log, previous

vars == <<data, schema, stack, errors, asyncErrors, promise, log, previous>>

(***************************************************************************)
(* JavaScript values.  A finite number is kept as a count of halves (h/2), *)
(* so that non-integers exist; NaN and the infinities are their own class. *)
(* An object is the sequence of its own <<key, value>> pairs in the order  *)
(* the keys were written.                                                  *)
(***************************************************************************)
Undefined == [k |-> "undefined"]
Null == [k |-> "null"]
Str(s) == [k |-> "string", s |-> s]
Num(n) == [k |-> "number", c |-> "finite", h |-> 2 * n]
Half(h) == [k |-> "number", c |-> "finite", h |-> h]
NaN == [k |-> "number", c |-> "NaN", h |-> 0]
PosInfinity == [k |-> "number", c |-> "Infinity", h |-> 0]
Bool(b) == [k |-> "boolean", b |-> b]
Arr(items) == [k |-> "array", items |-> items]
Obj(props) == [k |-> "object", props |-> props]
ErrorObj(m) == [k |-> "error", message |-> m]

\* typeof v
TypeOf(v) ==
  CASE v.k = "undefined" -> "undefined"
    [] v.k = "string" -> "string"
    [] v.k = "number" -> "number"
    [] v.k = "boolean" -> "boolean"
    [] OTHER -> "object"

Digit == <<"0", "1", "2", "3", "4", "5", "6", "7", "8", "9">>

RECURSIVE NatStr(_)
NatStr(n) == IF n < 10 THEN Digit[n + 1] ELSE NatStr(n \div 10) \o Digit[(n % 10) + 1]

\* `${n}` for an integer n
IntStr(n) == IF n < 0 THEN "-" \o NatStr(-n) ELSE NatStr(n)

\* `${v}` for a finite number of h halves
HalfStr(h) ==
  IF h % 2 = 0 THEN IntStr(h \div 2)
  ELSE (IF h < 0 THEN "-" ELSE "") \o
       NatStr((IF h < 0 THEN -h ELSE h) \div 2) \o ".5"

RECURSIVE JoinComma(_)
RECURSIVE StringOf(_)
\* String(v), as a template literal and a property key convert a value
StringOf(v) ==
  CASE v.k = "undefined" -> "undefined"
    [] v.k = "null" -> "null"
    [] v.k = "string" -> v.s
    [] v.k = "number" ->
         (CASE v.c = "NaN" -> "NaN"
            [] v.c = "Infinity" -> "Infinity"
            [] OTHER -> HalfStr(v.h))
    [] v.k = "boolean" -> (IF v.b THEN "true" ELSE "false")
    [] v.k = "array" -> JoinComma(v.items)
    [] OTHER -> "[object Object]"

JoinComma(items) ==
  IF items = <<>> THEN ""
  ELSE LET h == Head(items)
           hs == IF h.k \in {"undefined", "null"} THEN "" ELSE StringOf(h)
       IN IF Len(items) = 1 THEN hs ELSE hs \o "," \o JoinComma(Tail(items))

\* the truthiness of a value, as `if (res)` and `!sub` test it
Truthy(v) ==
  CASE v.k \in {"undefined", "null"} -> FALSE
    [] v.k = "string" -> v.s # ""
    [] v.k = "number" -> v.c = "Infinity" \/ (v.c = "finite" /\ v.h # 0)
    [] v.k = "boolean" -> v.b
    [] OTHER -> TRUE

Char(s, i) == SubSeq(s, i, i)

\* the index of the first pair of `props` whose key is `key`, 0 when none
RECURSIVE IndexOfKey(_, _, _)
IndexOfKey(props, key, i) ==
  IF i > Len(props) THEN 0
  ELSE IF props[i][1] = key THEN i ELSE IndexOfKey(props, key, i + 1)

HasKey(props, key) == IndexOfKey(props, key, 1) # 0

\* v[key] on an own-property list
Lookup(props, key) ==
  IF HasKey(props, key) THEN props[IndexOfKey(props, key, 1)][2] ELSE Undefined

\* the canonical array-index keys "0", "1", ... of the model's universe
IsIndexKey(key) == \E n \in 0..20 : key = NatStr(n)

IndexOf(key) == CHOOSE n \in 0..20 : key = NatStr(n)

\* v[key] for any value that is neither undefined nor null; only own
\* properties are modelled (nothing inherited from a prototype)
GetProp(v, key) ==
  CASE v.k = "object" -> Lookup(v.props, key)
    [] v.k = "array" ->
         IF key = "length" THEN Num(Len(v.items))
         ELSE IF IsIndexKey(key) /\ IndexOf(key) < Len(v.items)
              THEN v.items[IndexOf(key) + 1] ELSE Undefined
    [] v.k = "string" ->
         IF key = "length" THEN Num(Len(v.s))
         ELSE IF IsIndexKey(key) /\ IndexOf(key) < Len(v.s)
              THEN Str(Char(v.s, IndexOf(key) + 1)) ELSE Undefined
    [] OTHER -> Undefined

\* dv?.[p]
OptGet(v, key) == IF v.k \in {"undefined", "null"} THEN Undefined ELSE GetProp(v, key)

(***************************************************************************)
(* Object.keys(o): the integer-like keys first, in ascending numeric       *)
(* order, then the other keys in the order they were written.              *)
(***************************************************************************)
RECURSIVE InsertIndexKey(_, _)
InsertIndexKey(sorted, key) ==
  IF sorted = <<>> THEN <<key>>
  ELSE IF IndexOf(key) < IndexOf(Head(sorted)) THEN <<key>> \o sorted
       ELSE <<Head(sorted)>> \o InsertIndexKey(Tail(sorted), key)

RECURSIVE SortIndexKeys(_)
SortIndexKeys(keys) ==
  IF keys = <<>> THEN <<>> ELSE InsertIndexKey(SortIndexKeys(Tail(keys)), Head(keys))

IsIndexKeyTest(key) == IsIndexKey(key)

IsNotIndexKeyTest(key) == ~IsIndexKey(key)

WrittenKeys(props) == [i \in 1..Len(props) |-> props[i][1]]

ObjectKeys(props) ==
  SortIndexKeys(SelectSeq(WrittenKeys(props), IsIndexKeyTest))
    \o SelectSeq(WrittenKeys(props), IsNotIndexKeyTest)

(***************************************************************************)
(* Schema nodes are records; an optional field is a field the record may   *)
(* lack (sch.min !== undefined is "min" \in DOMAIN sch).  errorMessage is  *)
(* [fn |-> FALSE, text |-> the literal string] or, for the function form,  *)
(* [fn |-> TRUE, text |-> the function's source text].  validate is        *)
(* [async, body, ...]: callValidator gives what a call of it comes to, a   *)
(* returned value or a thrown one; an async function returns a promise     *)
(* that resolves with the one or rejects with the other.                   *)
(***************************************************************************)
Has(def, f) == f \in DOMAIN def

\* a boolean flag of the schema, falsy when absent
Flag(def, f) == Has(def, f) /\ def[f]

\* typeof def.errorMessage === 'string'
HasLiteralMessage(def) == Has(def, "errorMessage") /\ ~def.errorMessage.fn

\* sch.errorMessage?.toString() || dflt
MessageOr(sch, dflt) ==
  IF Has(sch, "errorMessage") /\ sch.errorMessage.text # ""
  THEN sch.errorMessage.text ELSE dflt

Err(path, message) == [path |-> path, message |-> message]

\* the errors one check adds: none, or one
When(cond, path, message) == IF cond THEN <<Err(path, message)>> ELSE <<>>

Whitespace == {" ", "\t", "\n", "\r"}

\* [^\s@]
IsLocalChar(c) == c \notin Whitespace /\ c # "@"

\* /[^\s@]+@[^\s@]+\.[^\s@]+/.test(v)
EmailTest(v) ==
  \E i \in 2..Len(v) :
    /\ Char(v, i) = "@"
    /\ IsLocalChar(Char(v, i - 1))
    /\ \E j \in (i + 2)..(Len(v) - 1) :
         /\ Char(v, j) = "."
         /\ \A m \in (i + 1)..(j - 1) : IsLocalChar(Char(v, m))
         /\ IsLocalChar(Char(v, j + 1))

\* /https?:\/\/\S+/.test(v)
UrlTest(v) ==
  \E i \in 1..Len(v) :
    \/ /\ i + 7 <= Len(v)
       /\ SubSeq(v, i, i + 6) = "http://"
       /\ Char(v, i + 7) \notin Whitespace
    \/ /\ i + 8 <= Len(v)
       /\ SubSeq(v, i, i + 7) = "https://"
       /\ Char(v, i + 8) \notin Whitespace

\* v.includes(s)
Includes(v, s) == \E i \in 1..(Len(v) + 1) : i + Len(s) - 1 <= Len(v) /\ SubSeq(v, i, i + Len(s) - 1) = s

\* v.startsWith(s)
StartsWith(v, s) == Len(s) <= Len(v) /\ SubSeq(v, 1, Len(s)) = s

\* v.endsWith(s)
EndsWith(v, s) == Len(s) <= Len(v) /\ SubSeq(v, Len(v) - Len(s) + 1, Len(v)) = s

IsDigit(c) == \E d \in 1..10 : Digit[d] = c

IsLower(c) ==
  c \in {"a", "b", "c", "d", "e", "f", "g", "h", "i", "j", "k", "l", "m",
         "n", "o", "p", "q", "r", "s", "t", "u", "v", "w", "x", "y", "z"}

\* sch.pattern.test(v), for the two patterns of the model's schemas:
\* /^[a-z]+$/ and /[0-9]/ (neither has the g or y flag)
PatternTest(pattern, v) ==
  CASE pattern = "^[a-z]+$" -> Len(v) > 0 /\ \A i \in 1..Len(v) : IsLower(Char(v, i))
    [] pattern = "[0-9]" -> \E i \in 1..Len(v) : IsDigit(Char(v, i))
    [] OTHER -> FALSE

\* !isNaN(Date.parse(v)), for the date-only ISO form YYYY-MM-DD, which every
\* engine parses alike, and for strings without a digit, which none parses
DateParses(v) ==
  /\ Len(v) = 10
  /\ \A i \in {1, 2, 3, 4, 6, 7, 9, 10} : IsDigit(Char(v, i))
  /\ Char(v, 5) = "-" /\ Char(v, 8) = "-"
  /\ SubSeq(v, 6, 7) \in {"01", "02", "03", "04", "05", "06", "07", "08", "09", "10", "11", "12"}
  /\ SubSeq(v, 9, 10) # "00"
  /\ (Char(v, 9) \in {"0", "1", "2"} \/ SubSeq(v, 9, 10) \in {"30", "31"})

\* validateString: the errors it adds, in order
validateString(v, sch, path) ==
  IF TypeOf(v) # "string" THEN <<Err(path, "Must be a string")>>
  ELSE
    When(Has(sch, "minLength") /\ Len(v.s) < sch.minLength, path,
         MessageOr(sch, "Min length " \o IntStr(sch.minLength)))
    \o When(Has(sch, "maxLength") /\ Len(v.s) > sch.maxLength, path,
            MessageOr(sch, "Max length " \o IntStr(sch.maxLength)))
    \o When(Has(sch, "pattern") /\ ~PatternTest(sch.pattern, v.s), path,
            MessageOr(sch, "Invalid format"))
    \o When(Flag(sch, "email") /\ ~EmailTest(v.s), path,
            MessageOr(sch, "Invalid email"))
    \o When(Flag(sch, "url") /\ ~UrlTest(v.s), path,
            MessageOr(sch, "Invalid URL"))
    \o When(Has(sch, "contains") /\ sch.contains # "" /\ ~Includes(v.s, sch.contains), path,
            MessageOr(sch, "Must contain \"" \o sch.contains \o "\""))
    \o When(Has(sch, "startsWith") /\ sch.startsWith # "" /\ ~StartsWith(v.s, sch.startsWith), path,
            MessageOr(sch, "Must start with \"" \o sch.startsWith \o "\""))
    \o When(Has(sch, "endsWith") /\ sch.endsWith # "" /\ ~EndsWith(v.s, sch.endsWith), path,
            MessageOr(sch, "Must end with \"" \o sch.endsWith \o "\""))
    \o When(Has(sch, "format") /\ sch.format = "date" /\ ~DateParses(v.s), path,
            MessageOr(sch, "Invalid date"))

\* v % m !== 0 for a finite v of h halves and an integer m; v % 0 is NaN
NotMultiple(h, m) == IF m = 0 THEN TRUE ELSE h % (2 * (IF m < 0 THEN -m ELSE m)) # 0

\* v < n, v > n for a number value v and an integer n
NumLess(v, n) == v.c = "finite" /\ v.h < 2 * n

NumGreater(v, n) == v.c = "Infinity" \/ (v.c = "finite" /\ v.h > 2 * n)

\* validateNumber: the errors it adds, in order
validateNumber(v, sch, path) ==
  IF TypeOf(v) # "number" \/ v.c = "NaN" THEN <<Err(path, "Must be a number")>>
  ELSE
    When(Has(sch, "min") /\ NumLess(v, sch.min), path, "Min " \o IntStr(sch.min))
    \o When(Has(sch, "max") /\ NumGreater(v, sch.max), path, "Max " \o IntStr(sch.max))
    \o When(Flag(sch, "integer") /\ ~(v.c = "finite" /\ v.h % 2 = 0), path, "Must be integer")
    \o When(Flag(sch, "positive") /\ ~NumGreater(v, 0), path, "Must be positive")
    \o When(Flag(sch, "negative") /\ ~NumLess(v, 0), path, "Must be negative")
    \o When(Has(sch, "multipleOf") /\ (v.c # "finite" \/ NotMultiple(v.h, sch.multipleOf)),
            path, "Must be multiple of " \o IntStr(sch.multipleOf))

\* case 'boolean' of validateValue
validateBoolean(v, path) == When(TypeOf(v) # "boolean", path, "Must be a boolean")

\* JSON.stringify(i) as validateArray's uniqueItems uses it: two elements get
\* the same text exactly when their canonical forms are equal.  undefined and
\* (inside an array or object) NaN and the infinities serialize as null, and an
\* object's undefined-valued keys are dropped; key order is kept.
RECURSIVE JsonForm(_)
JsonForm(v) ==
  CASE v.k = "undefined" -> Null
    [] v.k = "number" -> (IF v.c = "finite" THEN v ELSE Null)
    [] v.k = "array" -> Arr([i \in 1..Len(v.items) |-> JsonForm(v.items[i])])
    [] v.k = "object" ->
         LET keys == ObjectKeys(v.props)
             kept == SelectSeq([i \in 1..Len(keys) |-> <<keys[i], Lookup(v.props, keys[i])>>],
                               LAMBDA kv : kv[2].k # "undefined")
         IN Obj([i \in 1..Len(kept) |-> <<kept[i][1], JsonForm(kept[i][2])>>])
    [] OTHER -> v

\* new Set(v.map(i => JSON.stringify(i))).size
StringifiedSetSize(items) ==
  Cardinality({(IF items[i].k = "undefined" THEN Undefined ELSE JsonForm(items[i])) : i \in 1..Len(items)})

\* validateArray's own checks on an array value, before its elements
arrayChecks(v, sch, path) ==
  When(Has(sch, "minItems") /\ Len(v.items) < sch.minItems, path, "Min items " \o IntStr(sch.minItems))
  \o When(Has(sch, "maxItems") /\ Len(v.items) > sch.maxItems, path, "Max items " \o IntStr(sch.maxItems))
  \o When(Flag(sch, "uniqueItems") /\ StringifiedSetSize(v.items) # Len(v.items), path, "Items must be unique")

\* sch.discriminator.split('.')
RECURSIVE Split(_)
Split(s) ==
  IF \E i \in 1..Len(s) : Char(s, i) = "."
  THEN LET i == CHOOSE i \in 1..Len(s) : Char(s, i) = "." /\ \A j \in 1..(i - 1) : Char(s, j) # "."
       IN <<SubSeq(s, 1, i - 1)>> \o Split(SubSeq(s, i + 1, Len(s)))
  ELSE <<s>>

\* let dv = allValues; for (const p of parts) { dv = dv?.[p]; }
RECURSIVE Resolve(_, _)
Resolve(dv, parts) ==
  IF parts = <<>> THEN dv ELSE Resolve(OptGet(dv, Head(parts)), Tail(parts))

\* discriminatorValue with the path walked from the union's own value
discriminatorValueLocal(sch, v, allValues) == Resolve(v, Split(sch.discriminator))

\* the value the discriminator of a union resolves to
discriminatorValue(sch, v, allValues) == Resolve(allValues, Split(sch.discriminator))

\* branchOf with the first branch as the default of an unknown key
branchOfOrFirst(sch, dv) ==
  IF HasKey(sch.schemas, StringOf(dv)) THEN Lookup(sch.schemas, StringOf(dv))
  ELSE sch.schemas[1][2]

\* sch.schemas[dv]: the branch under the key String(dv), undefined when none
branchOf(sch, dv) == Lookup(sch.schemas, StringOf(dv))

\* !sub: a schema node is an object, so only a missing branch is falsy
noBranch(sub) == sub = Undefined

\* `${path}[${i}]`
elementPath(path, i) == path \o "[" \o IntStr(i) \o "]"

\* path ? `${path}.${key}` : key
propertyPath(path, key) == IF path # "" THEN path \o "." \o key ELSE key

(***************************************************************************)
(* The run.  A frame of `stack` is one activation of validateValue,        *)
(* validateArray, validateObject, validateDiscriminatedUnion or            *)
(* validateAsync: its arguments, where it stands (pc), its loop index (i), *)
(* the number of the visit it belongs to (id) and of the visit that made   *)
(* it (parent).  The last frame is the running one.                        *)
(***************************************************************************)
Frame(fn, v, def, path, id, parent) ==
  [fn |-> fn, v |-> v, def |-> def, path |-> path, pc |-> "entry", i |-> 0,
   id |-> id, parent |-> parent]

Top == stack[Len(stack)]

Pop == SubSeq(stack, 1, Len(stack) - 1)

Running == promise.state = "pending" /\ stack # <<>>

At(fn, pc) == Running /\ Top.fn = fn /\ Top.pc = pc

\* the visits made so far
IsVisit(ev) == ev.e = "visit"

Visits == SelectSeq(log, IsVisit)

NextId == Len(Visits) + 1

VisitEvent(f) ==
  [e |-> "visit", id |-> NextId, parent |-> f.parent, path |-> f.path, def |-> f.def, v |-> f.v]

ErrorEvents(id, by, into, errs) ==
  [n \in 1..Len(errs) |->
     [e |-> "error", id |-> id, by |-> by, into |-> into,
      path |-> errs[n].path, message |-> errs[n].message]]

ReturnEvent(f, id) == [e |-> "return", id |-> id, path |-> f.path]

\* push with unshift in its place: the newest error first
pushFront(collected, errs) == errs \o collected

\* addError / addAsyncError: errors.push(...), once per error of `errs`
push(collected, errs) == collected \o errs

\* requiredAbsent with the null test forgotten
requiredAbsentUndefinedOnly(value, def) == Flag(def, "required") /\ value.k = "undefined"

\* def.required && (value === undefined || value === null)
requiredAbsent(value, def) == Flag(def, "required") /\ value.k \in {"undefined", "null"}

\* typeof def.errorMessage === 'string' ? def.errorMessage : 'Field is required'
requiredMessage(def) ==
  IF HasLiteralMessage(def) THEN def.errorMessage.text ELSE "Field is required"

\* optionalAbsent with the early return left out
optionalAbsentNever(value, def) == FALSE

\* value === undefined && !def.required
optionalAbsent(value, def) == value.k = "undefined" /\ ~Flag(def, "required")

\* the function validateValue's switch calls and awaits for a container type
calleeOf(type) ==
  CASE type = "array" -> "validateArray"
    [] type = "object" -> "validateObject"
    [] type = "discriminatedUnion" -> "validateDiscriminatedUnion"
    [] type = "asyncValidator" -> "validateAsync"

\* the synchronous cases of validateValue's switch
leafChecks(value, def, path) ==
  CASE def.type = "string" -> validateString(value, def, path)
    [] def.type = "number" -> validateNumber(value, def, path)
    [] def.type = "boolean" -> validateBoolean(value, path)

\* !Array.isArray(v)
notArray(v) == v.k # "array"

\* notPlainObject with the Array.isArray test forgotten
notPlainObjectArraysPass(v) == TypeOf(v) # "object" \/ v.k = "null"

\* typeof v !== 'object' || v === null || Array.isArray(v)
notPlainObject(v) == TypeOf(v) # "object" \/ v.k = "null" \/ v.k = "array"

\* propertyOrder with the loop over the input's keys that the schema declares
propertyOrderOfInput(v, sch) ==
  SelectSeq(ObjectKeys(v.props), LAMBDA key : HasKey(sch.properties, key))

\* the keys validateObject's loop runs over, in its order
propertyOrder(v, sch) == ObjectKeys(sch.properties)

\* a === b for the values of the model: primitives compare by value, NaN
\* equals nothing, and two objects or arrays of a document are never the same one
StrictEquals(a, b) ==
  /\ a.k \in {"undefined", "null", "string", "number", "boolean"}
  /\ a = b
  /\ ~(a.k = "number" /\ a.c = "NaN")

TypeErrorOf(m) == [out |-> "throw", val |-> ErrorObj(m)]

Returned(val) == [out |-> "return", val |-> val]

\* s.trim()
RECURSIVE TrimStart(_)
TrimStart(s) == IF s # "" /\ Char(s, 1) \in Whitespace THEN TrimStart(SubSeq(s, 2, Len(s))) ELSE s

RECURSIVE TrimEnd(_)
TrimEnd(s) == IF s # "" /\ Char(s, Len(s)) \in Whitespace THEN TrimEnd(SubSeq(s, 1, Len(s) - 1)) ELSE s

Trim(s) == TrimEnd(TrimStart(s))

\* What a call validate(value, allValues) comes to: [out |-> "return", val]
\* or [out |-> "throw", val].  A "fixed" validator ignores its arguments; the
\* other three are the validators of userSchema.
callValidator(validate, value, allValues) ==
  CASE validate.body = "fixed" -> [out |-> validate.out, val |-> validate.val]
    [] validate.body = "firstName" ->
         IF value.k # "string" THEN TypeErrorOf("value.trim is not a function")
         ELSE Returned(IF Trim(value.s) # "" THEN Null ELSE Str("First name cannot be empty"))
    [] validate.body = "companyEmail" ->
         IF value.k # "string" THEN TypeErrorOf("value.endsWith is not a function")
         ELSE Returned(IF EndsWith(value.s, "@company.com") THEN Null ELSE Str("Company email required"))
    [] validate.body = "confirmPassword" ->
         IF OptGet(allValues, "account").k \in {"undefined", "null"}
         THEN TypeErrorOf("Cannot read properties of " \o StringOf(OptGet(allValues, "account"))
                            \o " (reading 'password')")
         ELSE Returned(IF StrictEquals(value, GetProp(GetProp(allValues, "account"), "password"))
                       THEN Null ELSE Str("Passwords must match"))

\* the call throws before it returns anything: the function is not async
throwsOnCall(validate, value, allValues) ==
  ~validate.async /\ callValidator(validate, value, allValues).out = "throw"

\* err instanceof Error ? err.message : 'Validation error'
caughtMessage(err) == IF err.k = "error" THEN err.message ELSE "Validation error"

\* resultOf with asyncErrors returned as it is, empty or not
resultOfAlwaysList(errs, asyncErrs) ==
  [valid |-> Len(errs) = 0 /\ Len(asyncErrs) = 0,
   errors |-> errs,
   asyncErrors |-> Arr(asyncErrs)]

\* the Result validateForm returns
resultOf(errs, asyncErrs) ==
  [valid |-> Len(errs) = 0 /\ Len(asyncErrs) = 0,
   errors |-> errs,
   asyncErrors |-> IF Len(asyncErrs) > 0 THEN Arr(asyncErrs) ELSE Undefined]

\* newCollector with one array kept across the calls
keptCollector(old) == old

\* const errors = [] / const asyncErrors = []: each call makes its own
newCollector(old) == <<>>

\* no earlier call
NoCall == [state |-> "none"]

\* await validateValue(data, { type: 'object', properties: schema }, '', data)
callValidateValue ==
  /\ promise.state = "pending" /\ stack = <<>> /\ log = <<>>
  /\ stack' = <<Frame("validateValue", data, [type |-> "object", properties |-> schema], "", 0, 0)>>
  /\ UNCHANGED <<data, schema, previous, errors, asyncErrors, promise, log>>

\* validateValue, a required node with an undefined or null value
visitRequiredAbsent ==
  /\ At("validateValue", "entry")
  /\ requiredAbsent(Top.v, Top.def)
  /\ LET errs == <<Err(Top.path, requiredMessage(Top.def))>>
     IN /\ errors' = push(errors, errs)
        /\ log' = log \o <<VisitEvent(Top)>> \o ErrorEvents(NextId, "required", "errors", errs)
                     \o <<ReturnEvent(Top, NextId)>>
  /\ stack' = Pop
  /\ UNCHANGED <<data, schema, previous, asyncErrors, promise>>

\* validateValue, an optional node with an undefined value
visitOptionalAbsent ==
  /\ At("validateValue", "entry")
  /\ ~requiredAbsent(Top.v, Top.def)
  /\ optionalAbsent(Top.v, Top.def)
  /\ log' = log \o <<VisitEvent(Top), ReturnEvent(Top, NextId)>>
  /\ stack' = Pop
  /\ UNCHANGED <<data, schema, previous, errors, asyncErrors, promise>>

\* validateValue, the string, number and boolean cases of the switch
visitLeaf ==
  /\ At("validateValue", "entry")
  /\ ~requiredAbsent(Top.v, Top.def)
  /\ ~optionalAbsent(Top.v, Top.def)
  /\ Top.def.type \in {"string", "number", "boolean"}
  /\ LET errs == leafChecks(Top.v, Top.def, Top.path)
     IN /\ errors' = push(errors, errs)
        /\ log' = log \o <<VisitEvent(Top)>> \o ErrorEvents(NextId, "builtin", "errors", errs)
  /\ stack' = [stack EXCEPT ![Len(stack)].pc = "custom", ![Len(stack)].id = NextId]
  /\ UNCHANGED <<data, schema, previous, asyncErrors, promise>>

\* validateValue, the cases of the switch that call and await another function
visitContainer ==
  /\ At("validateValue", "entry")
  /\ ~requiredAbsent(Top.v, Top.def)
  /\ ~optionalAbsent(Top.v, Top.def)
  /\ Top.def.type \in {"array", "object", "discriminatedUnion", "asyncValidator"}
  /\ log' = Append(log, VisitEvent(Top))
  /\ stack' = [stack EXCEPT ![Len(stack)].pc = "custom", ![Len(stack)].id = NextId]
                \o <<Frame(calleeOf(Top.def.type), Top.v, Top.def, Top.path, NextId, NextId)>>
  /\ UNCHANGED <<data, schema, previous, errors, asyncErrors, promise>>

\* validateArray, up to its loop
arrayEntry ==
  /\ At("validateArray", "entry")
  /\ IF notArray(Top.v)
     THEN LET errs == <<Err(Top.path, "Must be an array")>>
          IN /\ errors' = push(errors, errs)
             /\ log' = log \o ErrorEvents(Top.id, "builtin", "errors", errs)
             /\ stack' = Pop
     ELSE LET errs == arrayChecks(Top.v, Top.def, Top.path)
          IN /\ errors' = push(errors, errs)
             /\ log' = log \o ErrorEvents(Top.id, "builtin", "errors", errs)
             /\ stack' = [stack EXCEPT ![Len(stack)].pc = "loop"]
  /\ UNCHANGED <<data, schema, previous, asyncErrors, promise>>

\* validateArray's loop: the next element, or the return after the last
arrayLoop ==
  /\ At("validateArray", "loop")
  /\ IF Top.i < Len(Top.v.items)
     THEN stack' = [stack EXCEPT ![Len(stack)].i = Top.i + 1]
                     \o <<Frame("validateValue", Top.v.items[Top.i + 1], Top.def.items,
                                elementPath(Top.path, Top.i), 0, Top.id)>>
     ELSE stack' = Pop
  /\ UNCHANGED <<data, schema, previous, errors, asyncErrors, promise, log>>

\* validateObject, up to its loop
objectEntry ==
  /\ At("validateObject", "entry")
  /\ IF notPlainObject(Top.v)
     THEN LET errs == <<Err(Top.path, "Must be an object")>>
          IN /\ errors' = push(errors, errs)
             /\ log' = log \o ErrorEvents(Top.id, "builtin", "errors", errs)
             /\ stack' = Pop
     ELSE /\ stack' = [stack EXCEPT ![Len(stack)].pc = "loop"]
          /\ UNCHANGED <<errors, log>>
  /\ UNCHANGED <<data, schema, previous, asyncErrors, promise>>

\* validateObject's loop: the next declared property, or the return
objectLoop ==
  /\ At("validateObject", "loop")
  /\ LET keys == propertyOrder(Top.v, Top.def)
     IN IF Top.i < Len(keys)
        THEN LET key == keys[Top.i + 1]
             IN stack' = [stack EXCEPT ![Len(stack)].i = Top.i + 1]
                           \o <<Frame("validateValue", GetProp(Top.v, key),
                                      Lookup(Top.def.properties, key),
                                      propertyPath(Top.path, key), 0, Top.id)>>
        ELSE stack' = Pop
  /\ UNCHANGED <<data, schema, previous, errors, asyncErrors, promise, log>>

\* validateDiscriminatedUnion, up to the call of the branch
unionEntry ==
  /\ At("validateDiscriminatedUnion", "entry")
  /\ LET dv == discriminatorValue(Top.def, Top.v, data)
         sub == branchOf(Top.def, dv)
     IN IF noBranch(sub)
        THEN LET errs == <<Err(Top.path, "Invalid discriminator \"" \o StringOf(dv) \o "\"")>>
             IN /\ errors' = push(errors, errs)
                /\ log' = log \o ErrorEvents(Top.id, "builtin", "errors", errs)
                /\ stack' = Pop
        ELSE /\ stack' = [stack EXCEPT ![Len(stack)].pc = "return"]
                           \o <<Frame("validateValue", Top.v, sub, Top.path, 0, Top.id)>>
             /\ UNCHANGED <<errors, log>>
  /\ UNCHANGED <<data, schema, previous, asyncErrors, promise>>

\* validateDiscriminatedUnion returns once the branch's visit has
unionReturn ==
  /\ At("validateDiscriminatedUnion", "return")
  /\ stack' = Pop
  /\ UNCHANGED <<data, schema, previous, errors, asyncErrors, promise, log>>

\* awaitCall with the await left out: the caller goes on at once and returns
notAwaited(frames) == SubSeq(frames, 1, Len(frames) - 1)

\* await validate(value, allValues): the caller stands still until the
\* promise of the call settles
awaitCall(frames) == [frames EXCEPT ![Len(frames)].pc = "await"]

InvokeEvent(f, fn) ==
  [e |-> "invoke", id |-> f.id, fn |-> fn, path |-> f.path, v |-> f.v, all |-> data]

SettleEvent(f, fn) == [e |-> "settle", id |-> f.id, fn |-> fn, path |-> f.path]

\* an exception no frame catches: the async functions on the stack reject one
\* after the other, and so does the promise validateForm returned
Reject(reason) ==
  /\ promise' = [state |-> "rejected", reason |-> reason]
  /\ stack' = <<>>

\* validateAsync: sch.validate(v, allValues) is called
asyncInvoke ==
  /\ At("validateAsync", "entry")
  /\ IF ~Has(Top.def, "validate")
     THEN /\ stack' = Pop
          /\ UNCHANGED <<promise, log>>
     ELSE /\ log' = Append(log, InvokeEvent(Top, "validateAsync"))
          /\ IF throwsOnCall(Top.def.validate, Top.v, data)
             THEN Reject(callValidator(Top.def.validate, Top.v, data).val)
             ELSE /\ stack' = awaitCall(stack)
                  /\ UNCHANGED promise
  /\ UNCHANGED <<data, schema, previous, errors, asyncErrors>>

\* validateAsync: the awaited call settles
asyncSettle ==
  /\ At("validateAsync", "await")
  /\ IF callValidator(Top.def.validate, Top.v, data).out = "throw"
     THEN /\ Reject(callValidator(Top.def.validate, Top.v, data).val)
          /\ log' = Append(log, SettleEvent(Top, "validateAsync"))
          /\ UNCHANGED asyncErrors
     ELSE LET res == callValidator(Top.def.validate, Top.v, data).val
              errs == IF Truthy(res) THEN <<Err(Top.path, res.s)>> ELSE <<>>
          IN /\ asyncErrors' = push(asyncErrors, errs)
             /\ log' = log \o <<SettleEvent(Top, "validateAsync")>>
                          \o ErrorEvents(Top.id, "async", "asyncErrors", errs)
             /\ stack' = Pop
             /\ UNCHANGED promise
  /\ UNCHANGED <<data, schema, previous, errors>>

\* validateValue after the switch: def.validate, when there is one, is called
customInvoke ==
  /\ At("validateValue", "custom")
  /\ IF ~Has(Top.def, "validate")
     THEN /\ stack' = Pop
          /\ log' = Append(log, ReturnEvent(Top, Top.id))
          /\ UNCHANGED errors
     ELSE IF throwsOnCall(Top.def.validate, Top.v, data)
          THEN LET errs == <<Err(Top.path, caughtMessage(callValidator(Top.def.validate, Top.v, data).val))>>
               IN /\ errors' = push(errors, errs)
                  /\ log' = log \o <<InvokeEvent(Top, "validateValue")>>
                               \o ErrorEvents(Top.id, "custom", "errors", errs)
                               \o <<ReturnEvent(Top, Top.id)>>
                  /\ stack' = Pop
          ELSE /\ log' = Append(log, InvokeEvent(Top, "validateValue"))
               /\ stack' = awaitCall(stack)
               /\ UNCHANGED errors
  /\ UNCHANGED <<data, schema, previous, asyncErrors, promise>>

\* validateValue: the awaited call settles, inside the try
customSettle ==
  /\ At("validateValue", "await")
  /\ LET out == callValidator(Top.def.validate, Top.v, data)
         errs == IF out.out = "throw" THEN <<Err(Top.path, caughtMessage(out.val))>>
                 ELSE IF Truthy(out.val) THEN <<Err(Top.path, out.val.s)>> ELSE <<>>
     IN /\ errors' = push(errors, errs)
        /\ log' = log \o <<SettleEvent(Top, "validateValue")>>
                     \o ErrorEvents(Top.id, "custom", "errors", errs)
                     \o <<ReturnEvent(Top, Top.id)>>
  /\ stack' = Pop
  /\ UNCHANGED <<data, schema, previous, asyncErrors, promise>>

\* validateForm's return
returnResult ==
  /\ promise.state = "pending" /\ stack = <<>> /\ log # <<>>
  /\ promise' = [state |-> "fulfilled", value |-> resultOf(errors, asyncErrors)]
  /\ UNCHANGED <<data, schema, previous, stack, errors, asyncErrors, log>>

(***************************************************************************)
(* The schemas and documents of the model.  validateForm takes any value   *)
(* as data, so every pairing of a schema with a document is an input the   *)
(* program can be given.                                                   *)
(***************************************************************************)
\* the longest array a document holds
MaxItems == 2

Returns(val) == [async |-> FALSE, body |-> "fixed", out |-> "return", val |-> val]
Throws(val) == [async |-> FALSE, body |-> "fixed", out |-> "throw", val |-> val]
Resolves(val) == [async |-> TRUE, body |-> "fixed", out |-> "return", val |-> val]
Rejects(val) == [async |-> TRUE, body |-> "fixed", out |-> "throw", val |-> val]
UserValidator(name) == [async |-> FALSE, body |-> name]

NoModifiers == [f \in {} |-> TRUE]

\* the common modifiers a node carries: required, errorMessage, validate
Modifiers ==
  { NoModifiers,
    [required |-> TRUE],
    [required |-> TRUE, errorMessage |-> [fn |-> FALSE, text |-> "Needed"]],
    [required |-> TRUE, errorMessage |-> [fn |-> TRUE, text |-> "v => v.length"]],
    [required |-> TRUE, validate |-> Returns(Str("Custom"))],
    [validate |-> Returns(Str("Custom"))],
    [validate |-> Returns(Null)],
    [validate |-> Resolves(Str("Taken"))],
    [validate |-> Throws(ErrorObj("Boom"))],
    [validate |-> Throws(Str("oops"))],
    [validate |-> Rejects(ErrorObj("Down"))] }

ContainerModifiers ==
  { NoModifiers,
    [required |-> TRUE, errorMessage |-> [fn |-> FALSE, text |-> "Needed"]],
    [required |-> TRUE, validate |-> Returns(Str("Custom"))],
    [validate |-> Returns(Str("Custom"))],
    [validate |-> Resolves(Str("Taken"))],
    [validate |-> Throws(ErrorObj("Boom"))] }

With(base, mods) == mods @@ base

StringDef == [type |-> "string", minLength |-> 2]
NumberDef == [type |-> "number", min |-> 1]
BooleanDef == [type |-> "boolean"]
AsyncDef == [type |-> "asyncValidator", dependsOn |-> "g"]

Reverse(seq) == [i \in 1..Len(seq) |-> seq[Len(seq) + 1 - i]]

\* an object literal, with its keys written in either order
Objects(pairs) == {Obj(pairs), Obj(Reverse(pairs))}

SeqsUpTo(S, n) == UNION {[1..m -> S] : m \in 0..n}

Scenario(sch, doc) == [schema |-> sch, data |-> doc]

\* a leaf node f with its modifiers, followed by a sibling g that fails
LeafScenarios ==
  { Scenario(<< <<"f", With(b, m)>>, <<"g", NumberDef>> >>, doc) :
      b \in {StringDef, NumberDef, BooleanDef, AsyncDef},
      m \in Modifiers,
      doc \in UNION { Objects(<< <<"f", v>>, <<"g", Num(0)>> >>) :
                        v \in {Undefined, Null, Str("a"), Str("ab"), Num(0), Num(1), Bool(TRUE)} } }

ItemDefs ==
  { NumberDef,
    [type |-> "number", min |-> 1, required |-> TRUE, validate |-> Returns(Str("Odd"))],
    [type |-> "asyncValidator", dependsOn |-> "g", validate |-> Rejects(ErrorObj("Down"))] }

ArrayDefs ==
  { [type |-> "array", items |-> it, minItems |-> 2, uniqueItems |-> TRUE] : it \in ItemDefs }
  \cup { [type |-> "array", items |-> NumberDef, maxItems |-> 1] }

ArrayScenarios ==
  { Scenario(<< <<"l", With(b, m)>> >>, Obj(<< <<"l", v>> >>)) :
      b \in ArrayDefs,
      m \in ContainerModifiers,
      v \in { Arr(items) : items \in SeqsUpTo({Num(0), Num(2), Undefined}, MaxItems) }
            \cup {Undefined, Null, Str("a"), Obj(<< <<"length", Num(1)>> >>)} }

InnerDef == [type |-> "object", properties |-> << <<"s", [type |-> "string", required |-> TRUE]>> >>]

ObjectDefs ==
  { [type |-> "object",
     properties |-> << <<"p", [type |-> "number", min |-> 1, required |-> TRUE]>>,
                       <<"q", With(StringDef, [validate |-> Returns(Str("Custom"))])>> >>],
    [type |-> "object",
     properties |-> << <<"p", InnerDef>>, <<"q", With(InnerDef, [required |-> TRUE])>> >>],
    [type |-> "object",
     properties |-> << <<"b", [type |-> "string", required |-> TRUE]>>,
                       <<"1", [type |-> "number", required |-> TRUE]>>,
                       <<"0", [type |-> "boolean", required |-> TRUE]>> >>] }

ObjectScenarios ==
  { Scenario(<< <<"o", With(b, m)>> >>, Obj(<< <<"o", v>> >>)) :
      b \in ObjectDefs,
      m \in ContainerModifiers,
      v \in UNION { Objects(<< <<"p", x>>, <<"q", y>> >>) :
                      x \in {Undefined, Num(0), Obj(<<>>)}, y \in {Undefined, Str("a"), Obj(<< <<"s", Num(2)>> >>)} }
            \cup {Undefined, Null, Arr(<<>>), Num(1), Obj(<< <<"0", Num(1)>>, <<"b", Str("a")>> >>)} }

Branches ==
  << <<"x", [type |-> "object", properties |-> << <<"p", NumberDef>> >>]>>,
     <<"y", [type |-> "object", required |-> TRUE,
             properties |-> << <<"q", [type |-> "string", required |-> TRUE]>> >>]>> >>

UnionDefs(at) ==
  { [type |-> "discriminatedUnion", discriminator |-> at, schemas |-> Branches],
    [type |-> "discriminatedUnion", discriminator |-> at,
     schemas |-> Branches \o << <<"undefined", NumberDef>> >>] }

UnionValues ==
  { Undefined, Null, Str("a"),
    Obj(<< <<"p", Num(0)>> >>),
    Obj(<< <<"r", Str("y")>>, <<"p", Num(0)>> >>),
    Obj(<< <<"q", Str("k")>>, <<"p", Num(2)>> >>) }

\* a union u that looks at its sibling r
UnionScenarios ==
  { Scenario(<< <<"r", [type |-> "string"]>>, <<"u", With(b, m)>> >>, doc) :
      b \in UnionDefs("r"),
      m \in ContainerModifiers,
      doc \in UNION { Objects(<< <<"r", r>>, <<"u", v>> >>) :
                        r \in {Undefined, Null, Str("x"), Str("y"), Str("z")}, v \in UnionValues } }

\* a union inside an object and inside an array, looking at the root's r or at o.r
NestedScenarios ==
  { Scenario(<< <<"r", [type |-> "string"]>>,
                <<"o", [type |-> "object",
                        properties |-> << <<"r", [type |-> "string"]>>, <<"u", b>> >>]>> >>,
             Obj(<< <<"r", r>>, <<"o", Obj(<< <<"r", s>>, <<"u", v>> >>)>> >>)) :
      b \in UnionDefs("r") \cup UnionDefs("o.r"),
      r \in {Str("x"), Str("y")},
      s \in {Undefined, Str("x"), Str("y")},
      v \in UnionValues }
  \cup
  { Scenario(<< <<"r", [type |-> "string"]>>, <<"l", [type |-> "array", items |-> b]>> >>,
             Obj(<< <<"r", r>>, <<"l", Arr(items)>> >>)) :
      b \in UnionDefs("r"),
      r \in {Str("x"), Str("y"), Str("z")},
      items \in SeqsUpTo({Obj(<< <<"p", Num(0)>> >>), Obj(<< <<"r", Str("y")>>, <<"p", Num(0)>> >>)}, MaxItems) }

\* an array of any values whose elements must be unique
UniqueValues ==
  { Null, NaN, Num(0),
    Obj(<< <<"a", Num(1)>>, <<"b", Num(2)>> >>),
    Obj(<< <<"b", Num(2)>>, <<"a", Num(1)>> >>) }

UniqueScenarios ==
  { Scenario(<< <<"l", [type |-> "array", uniqueItems |-> TRUE,
                        items |-> [type |-> "object", properties |-> <<>>]]>> >>,
             Obj(<< <<"l", Arr(items)>> >>)) :
      items \in SeqsUpTo(UniqueValues, MaxItems) }

\* a string node with every built-in check, and the forms of errorMessage
StringDefs ==
  { [type |-> "string", minLength |-> 3, maxLength |-> 5, pattern |-> "^[a-z]+$",
     email |-> TRUE, url |-> TRUE, contains |-> "b", startsWith |-> "a", endsWith |-> "c",
     format |-> "date"],
    [type |-> "string", maxLength |-> 12, pattern |-> "[0-9]", email |-> TRUE,
     contains |-> "", startsWith |-> "http", format |-> "email"] }

MessageForms ==
  { NoModifiers,
    [errorMessage |-> [fn |-> FALSE, text |-> "Bad"]],
    [errorMessage |-> [fn |-> FALSE, text |-> ""]],
    [errorMessage |-> [fn |-> TRUE, text |-> "v => v.length"]] }

StringScenarios ==
  { Scenario(<< <<"s", With(b, m)>> >>, Obj(<< <<"s", Str(v)>> >>)) :
      b \in StringDefs,
      m \in MessageForms,
      v \in {"", "abc", "aBcdef", "a@b.c", "http://x@y.zc", "2024-02-30", "2024-13-01"} }

\* a number node with its built-in constraints
NumberDefs ==
  { [type |-> "number"],
    [type |-> "number", min |-> 1, max |-> 3, integer |-> TRUE, positive |-> TRUE, multipleOf |-> 2],
    [type |-> "number", min |-> -1, max |-> 0, negative |-> TRUE, multipleOf |-> -3],
    [type |-> "number", integer |-> FALSE, multipleOf |-> 0] }

NumberScenarios ==
  { Scenario(<< <<"n", b>> >>, Obj(<< <<"n", v>> >>)) :
      b \in NumberDefs,
      v \in {PosInfinity, NaN, Str("42"), Null, Bool(TRUE),
              Num(0), Num(1), Num(2), Num(3), Num(4), Num(6), Num(-1), Num(-3), Half(3), Half(-1)} }

\* a document that is no plain object
RootScenarios ==
  { Scenario(<< <<"f", With(StringDef, [required |-> TRUE])>> >>, doc) :
      doc \in {Undefined, Null, Str("a"), Arr(<<Str("a")>>), Obj(<<>>)} }

\* export const userSchema
userSchema ==
  << <<"personal",
       [type |-> "object",
        properties |->
          << <<"firstName", [type |-> "string", required |-> TRUE, minLength |-> 2,
                             errorMessage |-> [fn |-> FALSE, text |-> "First name too short"],
                             validate |-> UserValidator("firstName")]>>,
             <<"lastName", [type |-> "string", required |-> TRUE, minLength |-> 2]>>,
             <<"email", [type |-> "string", required |-> TRUE, email |-> TRUE,
                         validate |-> UserValidator("companyEmail")]>> >>]>>,
     <<"account",
       [type |-> "object",
        properties |->
          << <<"password", [type |-> "string", required |-> TRUE, minLength |-> 8]>>,
             <<"confirmPassword", [type |-> "string", required |-> TRUE,
                                   validate |-> UserValidator("confirmPassword")]>>,
             <<"role", [type |-> "string", required |-> TRUE]>> >>]>>,
     <<"roleSpecific",
       [type |-> "discriminatedUnion", discriminator |-> "account.role",
        schemas |->
          << <<"customer", [type |-> "object",
                            properties |-> << <<"loyalty", [type |-> "number", min |-> 0]>> >>]>>,
             <<"admin", [type |-> "object",
                         properties |-> << <<"level", [type |-> "number", min |-> 1]>> >>]>> >>]>> >>

\* the documents of validation.test.ts, built from their parts
UserDocuments ==
  { Obj(<< <<"personal", personal>>, <<"account", account>>, <<"roleSpecific", roleSpecific>> >>) :
      personal \in
        { Null,
          Obj(<< <<"lastName", Str("Smith")>>, <<"email", Str("alice@company.com")>> >>) }
        \cup { Obj(<< <<"firstName", first>>, <<"lastName", Str("Smith")>>, <<"email", Str(email)>> >>) :
                 first \in {Str("Alice"), Str("A"), Str("   "), Num(123)},
                 email \in {"alice@company.com", "alice@gmail.com", "test@company", "test@company.com "} },
      account \in
        { Obj(<< <<"password", Str(pw)>>, <<"confirmPassword", Str(confirm)>>, <<"role", Str(role)>> >>) :
            pw \in {"P@ssw0rd1", "short"},
            confirm \in {"P@ssw0rd1", "short"},
            role \in {"customer", "admin", "invalid_role"} },
      roleSpecific \in
        { Obj(<< <<"loyalty", Num(42)>> >>), Obj(<< <<"loyalty", Num(-1)>> >>),
          Obj(<< <<"loyalty", Str("42")>> >>), Obj(<< <<"level", Num(0)>> >>) } }

UserScenarios == { Scenario(userSchema, doc) : doc \in UserDocuments }

DocumentScenarios ==
  UserScenarios \cup LeafScenarios \cup ArrayScenarios \cup ObjectScenarios \cup UnionScenarios
    \cup NestedScenarios \cup RootScenarios \cup UniqueScenarios \cup StringScenarios
    \cup NumberScenarios

\* validateForm(undefined, schema), for each of the schemas
UndefinedScenarios == { Scenario(sc.schema, Undefined) : sc \in DocumentScenarios }

Scenarios == DocumentScenarios \cup UndefinedScenarios

\* validateForm(data, schema) has been called: both collectors are empty
Init ==
  /\ \E sc \in Scenarios : data = sc.data /\ schema = sc.schema
  /\ stack = <<>>
  /\ errors = <<>>
  /\ asyncErrors = <<>>
  /\ promise = [state |-> "pending"]
  /\ log = <<>>
  /\ previous = NoCall

Next ==
  \/ callValidateValue
  \/ visitRequiredAbsent
  \/ visitOptionalAbsent
  \/ visitLeaf
  \/ visitContainer
  \/ arrayEntry
  \/ arrayLoop
  \/ objectEntry
  \/ objectLoop
  \/ unionEntry
  \/ unionReturn
  \/ asyncInvoke
  \/ asyncSettle
  \/ customInvoke
  \/ customSettle
  \/ returnResult

Spec == Init /\ [][Next]_vars

\* every step that can be taken is taken in the end: the event loop runs the
\* continuation of each await, and every validator's promise settles
FairSpec == Spec /\ WF_vars(Next)

(***************************************************************************)
(* Two calls in a row.  When the first call has settled, the caller calls  *)
(* validateForm again with the same document and the same schema objects.  *)
(***************************************************************************)
\* validateForm(data, schema), a second time
validateAgain ==
  /\ promise.state # "pending"
  /\ previous = NoCall
  /\ previous' = promise
  /\ promise' = [state |-> "pending"]
  /\ stack' = <<>>
  /\ errors' = newCollector(errors)
  /\ asyncErrors' = newCollector(asyncErrors)
  /\ log' = <<>>
  /\ UNCHANGED <<data, schema>>

InitAgain ==
  /\ Init
  /\ \E sc \in Scenarios \ UserScenarios : data = sc.data /\ schema = sc.schema

NextAgain == Next \/ validateAgain

SpecAgain == InitAgain /\ [][NextAgain]_vars

(***************************************************************************)
(* What the claims speak of, read off the history.                         *)
(***************************************************************************)
IsError(ev) == ev.e = "error" /\ ev.into = "errors"

IsAsyncError(ev) == ev.e = "error" /\ ev.into = "asyncErrors"

\* the addError calls so far, in order, and the addAsyncError calls
ErrLog == SelectSeq(log, IsError)

AsyncErrLog == SelectSeq(log, IsAsyncError)

Collected(evs) == [n \in 1..Len(evs) |-> Err(evs[n].path, evs[n].message)]

\* the two collectors hold exactly what was added, in the order it was added
CollectorsFollowLog == errors = Collected(ErrLog) /\ asyncErrors = Collected(AsyncErrLog)

VisitIds == 1..Len(Visits)

\* the places of the log where visit w added an error
ErrorsBy(w) == {n \in 1..Len(log) : log[n].e = "error" /\ log[n].id = w}

ChildrenOf(w) == {c \in VisitIds : Visits[c].parent = w}

Invoked(w) == \E n \in 1..Len(log) : log[n].e = "invoke" /\ log[n].id = w

HasReturned(w) == \E n \in 1..Len(log) : log[n].e = "return" /\ log[n].id = w

\* visit w has called validateArray, validateObject, validateDiscriminatedUnion
\* or validateAsync, which has not run yet
EntryPending(w) == stack # <<>> /\ Top.id = w /\ Top.fn # "validateValue" /\ Top.pc = "entry"

\* visit w has called validateValue for a child, which has not run yet
ChildPending(w) == stack # <<>> /\ Top.parent = w /\ Top.fn = "validateValue" /\ Top.pc = "entry"

IsRequiredAbsent(vis) == Flag(vis.def, "required") /\ vis.v.k \in {"undefined", "null"}

IsOptionalAbsent(vis) == ~Flag(vis.def, "required") /\ vis.v.k = "undefined"

PassesGate(vis) == ~IsRequiredAbsent(vis) /\ ~IsOptionalAbsent(vis)

\* the value a union's discriminator path leads to from the root document
RootDiscriminator(def) == Resolve(data, Split(def.discriminator))

Unmatched(def) == ~HasKey(def.schemas, StringOf(RootDiscriminator(def)))

DiscriminatorMessage(def) ==
  "Invalid discriminator \"" \o StringOf(RootDiscriminator(def)) \o "\""

(***************************************************************************)
(* C1.  A visit of a required node whose value is undefined or null adds   *)
(* exactly one error, at the node's path, with the node's literal          *)
(* errorMessage or else "Field is required"; the visit makes no child      *)
(* visit and does not call the node's validator, so nothing else is added  *)
(* for that path or below it.                                              *)
(***************************************************************************)
C1_RequiredAbsent ==
  /\ CollectorsFollowLog
  /\ \A w \in VisitIds :
       IsRequiredAbsent(Visits[w]) =>
         /\ Cardinality(ErrorsBy(w)) = 1
         /\ \A n \in ErrorsBy(w) :
              /\ log[n].into = "errors"
              /\ log[n].path = Visits[w].path
              /\ log[n].message =
                   IF Has(Visits[w].def, "errorMessage") /\ ~Visits[w].def.errorMessage.fn
                   THEN Visits[w].def.errorMessage.text ELSE "Field is required"
         /\ ChildrenOf(w) = {}
         /\ ~Invoked(w)

\* a required object with a validator and the value null, in a finished run
C1_Witness ==
  /\ promise.state = "fulfilled"
  /\ \E w \in VisitIds :
       /\ Visits[w].def.type = "object" /\ Has(Visits[w].def, "validate")
       /\ Flag(Visits[w].def, "required") /\ Visits[w].v = Null
       /\ \E n \in 1..Len(errors) : errors[n] = Err(Visits[w].path, "Field is required")

C3_UnionFromRoot ==
  \A w \in VisitIds :
    (Visits[w].def.type = "discriminatedUnion" /\ PassesGate(Visits[w])) =>
      /\ (~Unmatched(Visits[w].def) /\ ~EntryPending(w) /\ ~ChildPending(w)) =>
           Cardinality(ChildrenOf(w)) = 1
      /\ \A c \in ChildrenOf(w) :
           /\ Visits[c].def = Lookup(Visits[w].def.schemas, StringOf(RootDiscriminator(Visits[w].def)))
           /\ Visits[c].path = Visits[w].path
           /\ Visits[c].v = Visits[w].v
           /\ \A g \in ChildrenOf(c) :
                Visits[c].def.type = "object" =>
                  \E i \in 1..Len(Visits[c].def.properties) :
                    Visits[g].path = Visits[w].path \o "." \o Visits[c].def.properties[i][1]

\* a union two levels down whose own value and whose enclosing object both
\* carry another r than the root: the root's r picks the branch
C3_Witness ==
  /\ promise.state = "fulfilled"
  /\ \E w \in VisitIds :
       /\ Visits[w].def.type = "discriminatedUnion"
       /\ Visits[w].path = "o.u"
       /\ Visits[w].def.discriminator = "r"
       /\ GetProp(data, "r") = Str("x")
       /\ GetProp(GetProp(data, "o"), "r") = Str("y")
       /\ GetProp(Visits[w].v, "r") = Str("y")
  /\ \E n \in 1..Len(errors) : errors[n] = Err("o.u.p", "Min 1")

\* the three cases in which a visit goes no deeper and reports it
StopsDescent(vis) ==
  \/ IsRequiredAbsent(vis)
  \/ PassesGate(vis) /\ vis.def.type = "array" /\ vis.v.k # "array"
  \/ PassesGate(vis) /\ vis.def.type = "object" /\ vis.v.k # "object"
  \/ PassesGate(vis) /\ vis.def.type = "discriminatedUnion" /\ Unmatched(vis.def)

IsContainer(def) == def.type \in {"array", "object", "discriminatedUnion"}

\* how many child visits a container makes when nothing stops it
ExpectedChildren(vis) ==
  CASE vis.def.type = "array" -> Len(vis.v.items)
    [] vis.def.type = "object" -> Len(vis.def.properties)
    [] vis.def.type = "discriminatedUnion" -> 1

ErrorsOfKind(w, kinds) == {n \in ErrorsBy(w) : log[n].by \in kinds}

C5_NeverFails ==
  /\ promise.state # "rejected"
  /\ \A w \in VisitIds :
       LET failure == callValidator(Visits[w].def.validate, Visits[w].v, data)
       IN (HasReturned(w) /\ Invoked(w) /\ failure.out = "throw") =>
            \E n \in ErrorsOfKind(w, {"custom"}) :
              /\ log[n].path = Visits[w].path
              /\ log[n].message =
                   IF failure.val.k = "error" THEN failure.val.message ELSE "Validation error"

(***************************************************************************)
(* C6.  A message from a validator that returns a promise is added to      *)
(* asyncErrors only, a violation found by a built-in check to errors only, *)
(* and no validator's message appears in both.                             *)
(***************************************************************************)
C6_AsyncIsolated ==
  \A n \in 1..Len(log) :
    log[n].e = "error" =>
      /\ log[n].by \in {"required", "builtin"} => log[n].into = "errors"
      /\ (log[n].by \in {"custom", "async"} /\ Visits[log[n].id].def.validate.async) =>
           log[n].into = "asyncErrors"
      /\ \A m \in 1..Len(log) :
           ~( /\ log[m].e = "error" /\ log[m].id = log[n].id
              /\ log[n].by = "async" /\ log[m].by = "custom"
              /\ log[m].message = log[n].message )

(***************************************************************************)
(* C7.  In the Result a run returns, valid is true exactly when both       *)
(* collected sequences are empty, errors is the collected sequence, and    *)
(* asyncErrors is the collected async sequence when that is not empty and  *)
(* undefined when it is.                                                   *)
(***************************************************************************)
C7_ResultShape ==
  promise.state = "fulfilled" =>
    /\ promise.value.valid <=> (errors = <<>> /\ asyncErrors = <<>>)
    /\ promise.value.errors = errors
    /\ asyncErrors = <<>> => promise.value.asyncErrors = Undefined
    /\ asyncErrors # <<>> => promise.value.asyncErrors = Arr(asyncErrors)
    /\ CollectorsFollowLog

\* a Result with async errors, and so not valid
C7_Witness ==
  /\ promise.state = "fulfilled"
  /\ asyncErrors # <<>>
  /\ ~promise.value.valid
  /\ promise.value.asyncErrors.k = "array"

\* the child visits of visit w, in the order they were made
ChildSeq(w) == SelectSeq([c \in VisitIds |-> c], LAMBDA c : Visits[c].parent = w)

\* visit x of the visits vs, and the visits above it
RECURSIVE Ancestors(_, _)
Ancestors(vs, x) == IF x = 0 THEN {} ELSE {x} \cup Ancestors(vs, vs[x].parent)

\* visit x is visit a or was made, directly or not, by it
Within(vs, x, a) == a \in Ancestors(vs, x)

PathOfKey(path, key) == IF path = "" THEN key ELSE path \o "." \o key

PathOfIndex(path, i) == path \o "[" \o NatStr(i) \o "]"

\* the child visits of the object visit w follow `keys`, one key each
ChildrenFollowKeys(w, keys) ==
  LET vs == Visits
      kids == ChildSeq(w)
  IN /\ Len(kids) <= Len(keys)
     /\ \A n \in 1..Len(kids) :
          /\ vs[kids[n]].path = PathOfKey(vs[w].path, keys[n])
          /\ vs[kids[n]].def = Lookup(vs[w].def.properties, keys[n])
          /\ vs[kids[n]].v = Lookup(vs[w].v.props, keys[n])

ChildrenFollowIndex(w) ==
  LET vs == Visits
      kids == ChildSeq(w)
  IN /\ Len(kids) <= Len(vs[w].v.items)
     /\ \A n \in 1..Len(kids) :
          /\ vs[kids[n]].path = PathOfIndex(vs[w].path, n - 1)
          /\ vs[kids[n]].v = vs[w].v.items[n]

\* in the errors sequence, what an earlier sibling's subtree added stands
\* before what a later sibling's subtree added
SiblingErrorsInOrder ==
  LET vs == Visits
      es == ErrLog
  IN \A i, j \in 1..Len(es) :
       \A a \in Ancestors(vs, es[i].id), b \in Ancestors(vs, es[j].id) :
         (a < b /\ vs[a].parent = vs[b].parent) => i < j

IsObjectVisit(vis) == PassesGate(vis) /\ vis.def.type = "object" /\ vis.v.k = "object"

IsArrayVisit(vis) == PassesGate(vis) /\ vis.def.type = "array" /\ vis.v.k = "array"

C9_Original ==
  LET vs == Visits
      es == ErrLog
  IN \A i, j \in 1..Len(es) :
       (es[i].id # es[j].id /\ Within(vs, es[j].id, es[i].id)) => i < j

(***************************************************************************)
(* C9 amended.  In errors, what the gate and the built-in checks of a      *)
(* container visit add precedes every error added by the visits below it,  *)
(* and what the container's validator adds follows all of them.            *)
(***************************************************************************)
C9_PreOrder ==
  /\ CollectorsFollowLog
  /\ LET vs == Visits
         es == ErrLog
     IN \A i, j \in 1..Len(es) :
          (es[i].id # es[j].id /\ Within(vs, es[j].id, es[i].id)) =>
            IF es[i].by = "custom" THEN j < i ELSE i < j

\* an array's own error, its element's error, then its validator's message
C9_Witness ==
  /\ promise.state = "fulfilled"
  /\ errors = <<Err("l", "Min items 2"), Err("l[0]", "Min 1"), Err("l", "Custom")>>

(***************************************************************************)
(* C10.  When a run has ended, every property the schema declares for a    *)
(* present plain object has been visited, and every element of a present   *)
(* array has been visited at parent[i].                                    *)
(***************************************************************************)
C10_AllSiblingsVisited ==
  promise.state # "pending" =>
    \A w \in VisitIds :
      /\ IsObjectVisit(Visits[w]) =>
           \A i \in 1..Len(Visits[w].def.properties) :
             \E c \in ChildrenOf(w) :
               Visits[c].path = PathOfKey(Visits[w].path, Visits[w].def.properties[i][1])
      /\ IsArrayVisit(Visits[w]) =>
           \A i \in 1..Len(Visits[w].v.items) :
             \E c \in ChildrenOf(w) : Visits[c].path = PathOfIndex(Visits[w].path, i - 1)

RECURSIVE DeepEqual(_, _)
DeepEqual(a, b) ==
  IF a.k # b.k THEN FALSE
  ELSE IF a.k = "array"
       THEN /\ Len(a.items) = Len(b.items)
            /\ \A i \in 1..Len(a.items) : DeepEqual(a.items[i], b.items[i])
  ELSE IF a.k = "object"
       THEN /\ {a.props[i][1] : i \in 1..Len(a.props)} = {b.props[i][1] : i \in 1..Len(b.props)}
            /\ \A i \in 1..Len(a.props) :
                 DeepEqual(a.props[i][2], Lookup(b.props, a.props[i][1]))
  ELSE a = b

(***************************************************************************)
(* C12.  Once validateArray has checked an array value of a node with      *)
(* uniqueItems, "Items must be unique" has been added at the array's path  *)
(* exactly when two elements at different indices are equal by value.      *)
(***************************************************************************)
C12_UniqueByValue ==
  \A w \in VisitIds :
    ( /\ IsArrayVisit(Visits[w]) /\ Flag(Visits[w].def, "uniqueItems")
      /\ ~EntryPending(w) ) =>
        ( (\E n \in ErrorsBy(w) :
             log[n].message = "Items must be unique" /\ log[n].path = Visits[w].path)
          <=>
          (\E i, j \in 1..Len(Visits[w].v.items) :
             i < j /\ DeepEqual(Visits[w].v.items[i], Visits[w].v.items[j])) )

(***************************************************************************)
(* C13.  A visit of a node whose value is undefined and whose required     *)
(* flag is unset or false returns at once: it adds no error, visits no     *)
(* child and does not call the node's validator, whatever the node         *)
(* declares below it.  A call with undefined as the document makes that    *)
(* one visit and returns valid with no errors.                             *)
(***************************************************************************)
C13_OptionalAbsent ==
  /\ \A w \in VisitIds :
       IsOptionalAbsent(Visits[w]) =>
         /\ ErrorsBy(w) = {}
         /\ ChildrenOf(w) = {}
         /\ ~Invoked(w)
         /\ HasReturned(w)
  /\ (data = Undefined /\ log # <<>>) =>
       /\ Len(Visits) = 1
       /\ errors = <<>> /\ asyncErrors = <<>>
       /\ promise.state # "rejected"
       /\ promise.state = "fulfilled" =>
            (promise.value.valid /\ promise.value.errors = <<>>)

\* an absent optional object that declares a required property and carries a
\* validator: the call returns valid
C13_Witness ==
  /\ promise.state = "fulfilled" /\ promise.value.valid
  /\ \E w \in VisitIds :
       /\ Visits[w].v = Undefined /\ Visits[w].path = "o"
       /\ Visits[w].def.type = "object"
       /\ Has(Visits[w].def, "validate") /\ ~Has(Visits[w].def, "required")
       /\ \E i \in 1..Len(Visits[w].def.properties) :
            Flag(Visits[w].def.properties[i][2], "required")

\* the errors the built-in checks of visit w added, in the order they were added
BuiltinErrors(w) ==
  Collected(SelectSeq(log, LAMBDA ev : ev.e = "error" /\ ev.id = w /\ ev.by = "builtin"))

\* a literal errorMessage, or else the check's own message
LiteralOr(sch, dflt) == IF HasLiteralMessage(sch) THEN sch.errorMessage.text ELSE dflt

\* one error for each violated check of a string node, in the fixed order
StringViolations(v, sch, path) ==
  When(Has(sch, "minLength") /\ Len(v) < sch.minLength, path,
       LiteralOr(sch, "Min length " \o IntStr(sch.minLength)))
  \o When(Has(sch, "maxLength") /\ Len(v) > sch.maxLength, path,
          LiteralOr(sch, "Max length " \o IntStr(sch.maxLength)))
  \o When(Has(sch, "pattern") /\ ~PatternTest(sch.pattern, v), path, LiteralOr(sch, "Invalid format"))
  \o When(Flag(sch, "email") /\ ~EmailTest(v), path, LiteralOr(sch, "Invalid email"))
  \o When(Flag(sch, "url") /\ ~UrlTest(v), path, LiteralOr(sch, "Invalid URL"))
  \o When(Has(sch, "contains") /\ ~Includes(v, sch.contains), path,
          LiteralOr(sch, "Must contain \"" \o sch.contains \o "\""))
  \o When(Has(sch, "startsWith") /\ ~StartsWith(v, sch.startsWith), path,
          LiteralOr(sch, "Must start with \"" \o sch.startsWith \o "\""))
  \o When(Has(sch, "endsWith") /\ ~EndsWith(v, sch.endsWith), path,
          LiteralOr(sch, "Must end with \"" \o sch.endsWith \o "\""))
  \o When(Has(sch, "format") /\ sch.format = "date" /\ ~DateParses(v), path,
          LiteralOr(sch, "Invalid date"))

(***************************************************************************)
(* C14.  For a string node given a string, the built-in checks add one     *)
(* error per violated check, in the fixed order, each with the node's      *)
(* errorMessage when that is a literal string and the check's default      *)
(* message otherwise; a function-form errorMessage is never used.          *)
(***************************************************************************)
C14_StringChecks ==
  \A w \in VisitIds :
    (Visits[w].def.type = "string" /\ Visits[w].v.k = "string") =>
      BuiltinErrors(w) = StringViolations(Visits[w].v.s, Visits[w].def, Visits[w].path)

IsFiniteNumber(v) == v.k = "number" /\ v.c = "finite"

\* one error for each violated constraint of a number node, for a finite
\* value of h halves
NumberViolations(h, sch, path) ==
  When(Has(sch, "min") /\ h < 2 * sch.min, path, "Min " \o IntStr(sch.min))
  \o When(Has(sch, "max") /\ h > 2 * sch.max, path, "Max " \o IntStr(sch.max))
  \o When(Flag(sch, "integer") /\ h % 2 # 0, path, "Must be integer")
  \o When(Flag(sch, "positive") /\ h <= 0, path, "Must be positive")
  \o When(Flag(sch, "negative") /\ h >= 0, path, "Must be negative")
  \o When(Has(sch, "multipleOf") /\ NotMultiple(h, sch.multipleOf), path,
          "Must be multiple of " \o IntStr(sch.multipleOf))

Range(seq) == {seq[n] : n \in 1..Len(seq)}

(***************************************************************************)
(* C15.  For a number node given a present value: a value that is not a    *)
(* finite number (another type, NaN, an infinity) gets "Must be a number"  *)
(* as its only built-in error; a finite number gets exactly one error per  *)
(* violated constraint of min, max, integer, positive, negative and        *)
(* multipleOf.                                                             *)
(***************************************************************************)
C15_NumberChecks ==
  \A w \in VisitIds :
    (Visits[w].def.type = "number" /\ PassesGate(Visits[w])) =>
      IF IsFiniteNumber(Visits[w].v)
      THEN /\ Range(BuiltinErrors(w)) =
                Range(NumberViolations(Visits[w].v.h, Visits[w].def, Visits[w].path))
           /\ Len(BuiltinErrors(w)) =
                Len(NumberViolations(Visits[w].v.h, Visits[w].def, Visits[w].path))
      ELSE BuiltinErrors(w) = <<Err(Visits[w].path, "Must be a number")>>

\* the validator call logged at place n of the log has completed: it threw
\* at once, or the promise it returned has settled
Completed(n) ==
  \/ /\ n < Len(log)
     /\ log[n + 1].id = log[n].id
     /\ \/ log[n + 1].e = "settle" /\ log[n + 1].fn = log[n].fn
        \/ log[n + 1].e = "error" /\ log[n + 1].by = "custom"
  \/ n = Len(log) /\ promise.state = "rejected"

InFlight == {n \in 1..Len(log) : log[n].e = "invoke" /\ ~Completed(n)}

IsValidatorError(ev) == ev.e = "error" /\ ev.by \in {"custom", "async"}

\* the place of the last validator call made before place n of the log
LastInvokeBefore(n) ==
  CHOOSE m \in 1..(n - 1) :
    log[m].e = "invoke" /\ \A k \in (m + 1)..(n - 1) : log[k].e # "invoke"

(***************************************************************************)
(* C16.  At most one validator call is in flight at any moment, and while  *)
(* one is in flight the run does nothing else: no visit, no error and no   *)
(* other call is made before it completes.  Every error that comes from a  *)
(* validator is added straight after the completion of the call made last, *)
(* so these errors stand in the order of the calls.                        *)
(***************************************************************************)
C16_OneInFlight ==
  /\ Cardinality(InFlight) <= 1
  /\ \A n \in InFlight : n = Len(log)
  /\ Cardinality({i \in 1..Len(stack) : stack[i].pc = "await"}) <= 1
  /\ \A n \in 1..Len(log) :
       IsValidatorError(log[n]) =>
         /\ \E m \in 1..(n - 1) : log[m].e = "invoke"
         /\ log[LastInvokeBefore(n)].id = log[n].id
         /\ log[LastInvokeBefore(n)].path = log[n].path
         /\ \A k \in (LastInvokeBefore(n) + 1)..(n - 1) :
              log[k].e = "settle" /\ log[k].id = log[n].id

\* a second validator call is in flight after the first one has completed and
\* its message has been added
C16_Witness ==
  /\ InFlight = {Len(log)}
  /\ \E n \in 1..Len(log) :
       /\ IsValidatorError(log[n])
       /\ log[n].id # log[Len(log)].id
  /\ stack # <<>> /\ Top.pc = "await"

Max(S) == IF S = {} THEN 0 ELSE CHOOSE x \in S : \A y \in S : y <= x

\* the nesting depth of a schema node: itself, and the deepest node below it
RECURSIVE SchemaDepth(_)
SchemaDepth(def) ==
  1 + (CASE def.type = "array" -> SchemaDepth(def.items)
         [] def.type = "object" ->
              Max({SchemaDepth(def.properties[i][2]) : i \in 1..Len(def.properties)})
         [] def.type = "discriminatedUnion" ->
              Max({SchemaDepth(def.schemas[i][2]) : i \in 1..Len(def.schemas)})
         [] OTHER -> 0)

\* the activations of validateValue that have not returned
RecursionDepth == Cardinality({i \in 1..Len(stack) : stack[i].fn = "validateValue"})

\* every visit has returned, and every container that was entered has had all
\* its children visited
WholeTreeVisited ==
  /\ stack = <<>>
  /\ \A w \in VisitIds :
       /\ HasReturned(w)
       /\ (IsContainer(Visits[w].def) /\ ~StopsDescent(Visits[w]) /\ ~IsOptionalAbsent(Visits[w])) =>
            Cardinality(ChildrenOf(w)) = ExpectedChildren(Visits[w])

\* a property is visited only under a key the schema declares
OnlyDeclaredKeys ==
  \A c \in VisitIds :
    (Visits[c].parent # 0 /\ Visits[Visits[c].parent].def.type = "object") =>
      \E i \in 1..Len(Visits[Visits[c].parent].def.properties) :
        /\ Visits[c].path =
             PathOfKey(Visits[Visits[c].parent].path, Visits[Visits[c].parent].def.properties[i][1])
        /\ Visits[c].def = Visits[Visits[c].parent].def.properties[i][2]

(***************************************************************************)
(* C17.  Every run in the end returns its Result, and returns it only      *)
(* after the whole reachable tree has been visited; the recursion is never *)
(* deeper than the schema is nested, and only keys the schema declares are *)
(* visited or reported.                                                    *)
(***************************************************************************)
C17_Terminates ==
  /\ <>(promise.state = "fulfilled")
  /\ [](promise.state = "fulfilled" => WholeTreeVisited)
  /\ [](RecursionDepth <= SchemaDepth([type |-> "object", properties |-> schema]))
  /\ [](OnlyDeclaredKeys /\ \A n \in 1..Len(log) : log[n].e = "error" => log[n].path = Visits[log[n].id].path)

\* the places of the log where the validator of visit w was called
CallsBy(w) == {n \in 1..Len(log) : log[n].e = "invoke" /\ log[n].id = w}

\* the places of the log that belong to the visits below visit w
BelowInLog(w) ==
  LET vs == Visits
  IN {m \in 1..Len(log) : log[m].id # w /\ log[m].id # 0 /\ w \in Ancestors(vs, log[m].id)}

\* a visit of a node of type `types` that passed the gate, carries a
\* validator and has returned: the validator was called once, with the
\* node's value and the root document, after the node's checks and children,
\* and its message, if any, was added once
CalledOnce(w) ==
  /\ Cardinality(CallsBy(w)) = 1
  /\ \A n \in CallsBy(w) :
       /\ log[n].v = Visits[w].v /\ log[n].all = data /\ log[n].path = Visits[w].path
       /\ \A m \in ErrorsOfKind(w, {"builtin"}) \cup BelowInLog(w) : m < n
  /\ LET out == callValidator(Visits[w].def.validate, Visits[w].v, data)
     IN out.out = "return" =>
          IF Truthy(out.val)
          THEN /\ Cardinality(ErrorsOfKind(w, {"custom", "async"})) = 1
               /\ \A n \in ErrorsOfKind(w, {"custom", "async"}) :
                    log[n].message = out.val.s /\ log[n].path = Visits[w].path
          ELSE ErrorsOfKind(w, {"custom", "async"}) = {}

(***************************************************************************)
(* C18.  A node of any variant that passes the gate and carries a validate *)
(* function has it called exactly once per visit, with the node's value    *)
(* and the root document, after the node's own checks and the visits of    *)
(* its children, whether or not those added errors; a non-empty message it *)
(* returns is added exactly once at the node's path, and a null or empty   *)
(* return adds nothing.                                                    *)
(***************************************************************************)
C18_ValidatorOnce ==
  \A w \in VisitIds :
    (PassesGate(Visits[w]) /\ Has(Visits[w].def, "validate") /\ HasReturned(w)) => CalledOnce(w)

====
